---- MODULE Spec2Model ----
(***************************************************************************)
(* Model of advanced_mcp_exercise/frontend/src/main.jsx: the evaluation of *)
(* the front-end entry module.  The module's dependencies are evaluated    *)
(* first (lines 1-6), then the Stytch UI client is constructed (line 9),   *)
(* then the mount point is looked up, a React root is created on it, the   *)
(* JSX element is built and handed to the root's render (lines 12-16).     *)
(*                                                                         *)
(* The environment the module runs in is the page: its elements in         *)
(* document order with their ids and content, the style sheets applied to  *)
(* it, and a token value the environment could offer (which the module     *)
(* never reads).  Init draws the environment from bounded sets.            *)
(***************************************************************************)
EXTENDS Integers, Sequences, FiniteSets, TLC

VARIABLES
    document,     \* sequence of element ids, in document order
    content,      \* content[i]: what element i of the document holds
    styleSheets,  \* set of style sheets applied to the document
    envToken,     \* a token offered by the environment (never read)
    pc,           \* position of the module evaluation
    clients,      \* sequence of client instances constructed so far
    stytch,       \* the module constant `stytch`: index in clients, or Null
    container,    \* value of document.getElementById('root'): index or Null
    roots,        \* sequence of React roots created so far
    root,         \* value of createRoot(...): index in roots, or Null
    element,      \* value of the JSX expression of lines 13-15
    calls         \* the calls the module has made, in order

vars == <<document, content, styleSheets, envToken, pc, clients, stytch,
          container, roots, root, element, calls>>

(* ------------------------------ bounds -------------------------------- *)

\* Largest number of elements of the document.
MaxElems == 3

(* ---------------------------- environment ----------------------------- *)

\* JavaScript's null / not yet assigned; indexes start at 1.
Null == 0

\* The identifier main.jsx looks up.
MountId == "root"

\* Identifiers an element of the page can carry.
Ids == {MountId, "sidebar"}

\* The style sheet main.jsx imports.
IndexCss == "./index.css"

\* Style sheets the page can carry before the module runs.  IndexCss is
\* among them: a build that extracts the sheet into the page links it there.
Sheets == {IndexCss, "vendor.css"}

\* The token main.jsx passes to the client constructor.
PublicToken == "public-token-test-ae71e9a8-114f-4d46-a4cf-9ac23b2622da"

\* What the environment can offer as a token: nothing, or another token.
NoEnvToken == ""
EnvTokens == {NoEnvToken, "public-token-live-from-env"}

(* ------------------------------- trees -------------------------------- *)

\* A tree node: a component type, the client it is given as the `stytch`
\* prop (Null when it has none), and its children.
Node(type, client, children) ==
    [type |-> type, stytch |-> client, children |-> children]

\* An element that holds nothing.
Empty == Node("empty", Null, <<>>)

\* Static markup an element holds before the module runs.
Placeholder == Node("static", Null, <<>>)

\* <App />
AppElement == Node("App", Null, <<>>)

\* A variant of the JSX expression that wraps the tree in the imported
\* StrictMode.
JsxStrict(client) ==
    Node("StrictMode", Null, <<Node("StytchProvider", client, <<AppElement>>)>>)

\* <StytchProvider stytch={stytch}><App /></StytchProvider>
Jsx(client) == Node("StytchProvider", client, <<AppElement>>)

(* ------------------------------ helpers ------------------------------- *)

\* document.getElementById(id): the first element with that id in document
\* order, or null when there is none.
getElementById(doc, id) ==
    IF \E i \in 1..Len(doc) : doc[i] = id
    THEN CHOOSE i \in 1..Len(doc) :
            /\ doc[i] = id
            /\ \A j \in 1..(i - 1) : doc[j] # id
    ELSE Null

\* Number of times name occurs in the sequence of calls s.
Count(s, name) == Cardinality({i \in 1..Len(s) : s[i] = name})

(* ------------------------------- Init --------------------------------- *)

Init ==
    /\ \E n \in 0..MaxElems : document \in [1..n -> Ids]
    /\ content \in [1..Len(document) -> {Empty, Placeholder}]
    /\ styleSheets \in SUBSET Sheets
    /\ envToken \in EnvTokens
    /\ pc = "imports"
    /\ clients = <<>>
    /\ stytch = Null
    /\ container = Null
    /\ roots = <<>>
    /\ root = Null
    /\ element = Empty
    /\ calls = <<>>

(* ------------------------------ actions ------------------------------- *)

\* Lines 1-6: the module's dependencies are evaluated before its body.  The
\* import of './index.css' has no binding: it applies the sheet to the page.
ImportModules ==
    /\ pc = "imports"
    /\ styleSheets' = styleSheets \cup {IndexCss}
    /\ pc' = "client"
    /\ UNCHANGED <<document, content, envToken, clients, stytch, container,
                   roots, root, element, calls>>

\* A variant of line 9 that defers the construction of the client.
CreateClientDeferred ==
    /\ pc = "client"
    /\ pc' = "lookup"
    /\ UNCHANGED <<document, content, styleSheets, envToken, clients, stytch,
                   container, roots, root, element, calls>>

\* A variant of line 9 that prefers a token offered by the environment.
CreateClientFromEnv ==
    /\ pc = "client"
    /\ clients' = Append(clients,
          [token |-> IF envToken # NoEnvToken THEN envToken ELSE PublicToken])
    /\ stytch' = Len(clients) + 1
    /\ calls' = Append(calls, "createStytchUIClient")
    /\ pc' = "lookup"
    /\ UNCHANGED <<document, content, styleSheets, envToken, container, roots,
                   root, element>>

\* Line 9: const stytch = createStytchUIClient('public-token-test-...').
CreateClient ==
    /\ pc = "client"
    /\ clients' = Append(clients, [token |-> PublicToken])
    /\ stytch' = Len(clients) + 1
    /\ calls' = Append(calls, "createStytchUIClient")
    /\ pc' = "lookup"
    /\ UNCHANGED <<document, content, styleSheets, envToken, container, roots,
                   root, element>>

\* Line 12: document.getElementById('root').
Lookup ==
    /\ pc = "lookup"
    /\ container' = getElementById(document, MountId)
    /\ calls' = Append(calls, "getElementById")
    /\ pc' = "createRoot"
    /\ UNCHANGED <<document, content, styleSheets, envToken, clients, stytch,
                   roots, root, element>>

\* A variant of createRoot that accepts a null container.
CreateRootUnchecked ==
    /\ pc = "createRoot"
    /\ calls' = Append(calls, "createRoot")
    /\ roots' = Append(roots, [container |-> container, tree |-> Empty])
    /\ root' = Len(roots) + 1
    /\ pc' = "jsx"
    /\ UNCHANGED <<document, content, styleSheets, envToken, clients, stytch,
                   container, element>>

\* A variant of createRoot that waits for the mount point to appear.
CreateRootWaits ==
    /\ pc = "createRoot"
    /\ IF container = Null
       THEN UNCHANGED <<calls, roots, root, pc>>
       ELSE /\ calls' = Append(calls, "createRoot")
            /\ roots' = Append(roots, [container |-> container, tree |-> Empty])
            /\ root' = Len(roots) + 1
            /\ pc' = "jsx"
    /\ UNCHANGED <<document, content, styleSheets, envToken, clients, stytch,
                   container, element>>

\* A variant of createRoot whose failure discards the client.
CreateRootRollback ==
    /\ pc = "createRoot"
    /\ calls' = Append(calls, "createRoot")
    /\ IF container = Null
       THEN /\ pc' = "failed"
            /\ clients' = <<>>
            /\ stytch' = Null
            /\ UNCHANGED <<roots, root>>
       ELSE /\ roots' = Append(roots, [container |-> container, tree |-> Empty])
            /\ root' = Len(roots) + 1
            /\ pc' = "jsx"
            /\ UNCHANGED <<clients, stytch>>
    /\ UNCHANGED <<document, content, styleSheets, envToken, container,
                   element>>

\* Line 12: createRoot(container).  A null container is not a DOM element:
\* createRoot throws, nothing catches it, and the evaluation of the module
\* ends there.
CreateRoot ==
    /\ pc = "createRoot"
    /\ calls' = Append(calls, "createRoot")
    /\ IF container = Null
       THEN /\ pc' = "failed"
            /\ UNCHANGED <<roots, root>>
       ELSE /\ roots' = Append(roots, [container |-> container, tree |-> Empty])
            /\ root' = Len(roots) + 1
            /\ pc' = "jsx"
    /\ UNCHANGED <<document, content, styleSheets, envToken, clients, stytch,
                   container, element>>

\* Lines 13-15: the argument of render is evaluated after its receiver.
BuildElement ==
    /\ pc = "jsx"
    /\ element' = Jsx(stytch)
    /\ pc' = "render"
    /\ UNCHANGED <<document, content, styleSheets, envToken, clients, stytch,
                   container, roots, root, calls>>

\* A variant of render that is called twice.
RenderTwice ==
    /\ pc = "render"
    /\ calls' = Append(Append(calls, "render"), "render")
    /\ roots' = [roots EXCEPT ![root].tree = element]
    /\ content' = [content EXCEPT ![roots[root].container] = element]
    /\ pc' = "done"
    /\ UNCHANGED <<document, styleSheets, envToken, clients, stytch, container,
                   root, element>>

\* A variant of render that fills every element carrying the mount id.
RenderEveryMount ==
    /\ pc = "render"
    /\ calls' = Append(calls, "render")
    /\ roots' = [roots EXCEPT ![root].tree = element]
    /\ content' = [i \in 1..Len(document) |->
                     IF document[i] = MountId THEN element ELSE content[i]]
    /\ pc' = "done"
    /\ UNCHANGED <<document, styleSheets, envToken, clients, stytch, container,
                   root, element>>

\* Lines 12-16: root.render(element).  The root takes the element as its
\* tree and the root's container holds it in place of what it held.
Render ==
    /\ pc = "render"
    /\ calls' = Append(calls, "render")
    /\ roots' = [roots EXCEPT ![root].tree = element]
    /\ content' = [content EXCEPT ![roots[root].container] = element]
    /\ pc' = "done"
    /\ UNCHANGED <<document, styleSheets, envToken, clients, stytch, container,
                   root, element>>

Next ==
    \/ ImportModules
    \/ CreateClient
    \/ Lookup
    \/ CreateRoot
    \/ BuildElement
    \/ Render

Spec == Init /\ [][Next]_vars

\* The module is evaluated synchronously to completion: a step that can be
\* taken is taken.
FairSpec == Spec /\ WF_vars(Next)

(* --------------------------- shared notions --------------------------- *)

\* The page has an element with the mount id.
MountPresent == \E i \in 1..Len(document) : document[i] = MountId

\* i is the first element of the page with the mount id.
IsMount(i) ==
    /\ i \in 1..Len(document)
    /\ document[i] = MountId
    /\ \A j \in 1..(i - 1) : document[j] # MountId

\* The evaluation of the module has ended.
Terminal == pc \in {"done", "failed"}

\* The tree the module is to render: the provider, carrying client c, over
\* App alone.
ProviderOverApp(c) ==
    [type |-> "StytchProvider", stytch |-> c,
     children |-> <<[type |-> "App", stytch |-> Null, children |-> <<>>]>>]

(* ------------------------------- claims ------------------------------- *)

\* C1: render is never called more than once and at most one root exists;
\* when the bootstrap is done on a page that has the mount point, render has
\* been called exactly once, on the one root, created on the first element
\* with id 'root', and that element holds the provider-wrapped App.
C1_ExactlyOneRender ==
    /\ Count(calls, "render") <= 1
    /\ Len(roots) <= 1
    /\ (pc = "done" =>
          /\ Count(calls, "render") = 1
          /\ Len(roots) = 1
          /\ root = 1
          /\ IsMount(roots[root].container)
          /\ roots[root].tree = ProviderOverApp(stytch)
          /\ content[roots[root].container] = ProviderOverApp(stytch))
    /\ (MountPresent /\ Terminal => pc = "done")

\* C1 witness: the bootstrap is done on a page with two elements of id
\* 'root', the first of which held static markup before.
C1_Witness ==
    /\ pc = "done"
    /\ Cardinality({i \in 1..Len(document) : document[i] = MountId}) >= 2
    /\ Count(calls, "render") = 1

\* C2: every call of render comes after the call that constructs the
\* client, and from the mount lookup on the module constant holds the
\* constructed client.
C2_ClientBeforeRender ==
    /\ \A i \in 1..Len(calls) :
          calls[i] = "render" =>
              \E j \in 1..(i - 1) : calls[j] = "createStytchUIClient"
    /\ \A i \in 1..Len(calls) :
          calls[i] \in {"getElementById", "createRoot"} =>
              \E j \in 1..(i - 1) : calls[j] = "createStytchUIClient"
    /\ (pc \in {"lookup", "createRoot", "jsx", "render", "done", "failed"} =>
          stytch # Null /\ stytch \in 1..Len(clients))

\* C2 witness: render has been called, after the client construction.
C2_Witness ==
    /\ Len(calls) = 4
    /\ calls[1] = "createStytchUIClient"
    /\ calls[4] = "render"

\* C3: the bootstrap fails only when the mount point is absent; with the
\* mount point present the lookup yields it and a root is created on it;
\* with it absent no root is ever created, nothing is rendered, and the
\* lookup and createRoot are each called once, never again.
C3_FailsOnlyWhenMountAbsent ==
    /\ (pc = "failed" =>
          /\ ~MountPresent
          /\ container = Null
          /\ root = Null
          /\ roots = <<>>
          /\ Count(calls, "render") = 0
          /\ Count(calls, "getElementById") = 1
          /\ Count(calls, "createRoot") = 1
          /\ \A i \in 1..Len(content) : content[i] \in {Empty, Placeholder})
    /\ (MountPresent /\ pc \in {"createRoot", "jsx", "render", "done"} =>
          IsMount(container))
    /\ (MountPresent /\ pc \in {"jsx", "render", "done"} =>
          root # Null /\ roots[root].container = container)
    /\ (~MountPresent => pc \notin {"jsx", "render", "done"})

\* C3 witness: the bootstrap has failed on a page that has elements but
\* none with id 'root'.
C3_Witness ==
    /\ pc = "failed"
    /\ Len(document) >= 1
    /\ ~MountPresent

\* C3 second case: the bootstrap is done on a page that has the mount.
C3_WitnessPresent == pc = "done" /\ MountPresent

\* C4: every evaluation of the module reaches a terminal state, and no call
\* is ever made more than once; in a terminal state no further step can be
\* taken.
C4_Terminates ==
    /\ <>Terminal
    /\ [](\A name \in {"createStytchUIClient", "getElementById",
                       "createRoot", "render"} : Count(calls, name) <= 1)
    /\ [](Len(calls) <= 4)
    /\ [](Terminal => ~ENABLED Next)

\* C4 witness: a terminal state reached after all four calls.
C4_Witness == pc = "done" /\ Len(calls) = 4

\* C4 second case: a terminal state reached by the failure.
C4_WitnessFailed == pc = "failed" /\ Len(calls) = 3

\* C5 as stated: every step leaves the page's elements, every content other
\* than the mount point's, the environment and the style sheets unchanged.
C5_NoSideEffects ==
    [][/\ document' = document
       /\ envToken' = envToken
       /\ styleSheets' = styleSheets
       /\ \A i \in 1..Len(content) : ~IsMount(i) => content'[i] = content[i]
      ]_vars

\* C5 amended: the page's elements, the environment and every content other
\* than the mount point's are unchanged by every step; the style sheets are
\* changed by the imports alone, which add './index.css' and nothing else;
\* the mount point's content is changed by render alone.
C5_OnlyRenderAndStyleSheet ==
    [][/\ document' = document
       /\ envToken' = envToken
       /\ DOMAIN content' = DOMAIN content
       /\ \A i \in 1..Len(content) : ~IsMount(i) => content'[i] = content[i]
       /\ (styleSheets' # styleSheets =>
             pc = "imports" /\ styleSheets' = styleSheets \cup {IndexCss})
       /\ (pc = "imports" => IndexCss \in styleSheets')
       /\ (pc # "imports" => styleSheets' = styleSheets)
       /\ (content' # content => pc = "render")
      ]_vars

\* C5 witness: the bootstrap is done on a page whose second element carries
\* the mount id too and still holds its static markup, with the style sheet
\* applied.
C5_Witness ==
    /\ pc = "done"
    /\ IndexCss \in styleSheets
    /\ \E i \in 1..Len(document) :
          document[i] = MountId /\ ~IsMount(i) /\ content[i] = Placeholder

\* C6: every client ever constructed carries the fixed public token,
\* whatever the page holds and whatever token the environment offers.
C6_FixedToken ==
    /\ \A i \in 1..Len(clients) : clients[i].token = PublicToken
    /\ (stytch # Null => clients[stytch].token = PublicToken)

\* C6 witness: the client has been constructed in an environment that
\* offers another token.
C6_Witness ==
    /\ stytch # Null
    /\ envToken # NoEnvToken
    /\ envToken # PublicToken

\* C7: the element handed to render, and the tree the root holds after
\* render, is the provider over App alone, with no StrictMode node, and the
\* provider carries the one client that was constructed.
C7_ProviderOverApp ==
    /\ (pc \in {"render", "done"} =>
          /\ element = ProviderOverApp(stytch)
          /\ element.type # "StrictMode"
          /\ Len(element.children) = 1
          /\ element.children[1].type = "App"
          /\ element.children[1].children = <<>>
          /\ Len(clients) = 1
          /\ element.stytch = 1)
    /\ (pc = "done" => roots[root].tree = element)
    /\ Len(clients) <= 1

\* C7 witness: the tree has been rendered.
C7_Witness == pc = "done" /\ roots[root].tree.type = "StytchProvider"

\* C8: whenever the bootstrap has failed, the client has been constructed
\* exactly once and nothing has been rendered.
C8_FailureAfterClient ==
    pc = "failed" =>
        /\ Len(clients) = 1
        /\ stytch = 1
        /\ Count(calls, "createStytchUIClient") = 1
        /\ calls[1] = "createStytchUIClient"
        /\ Count(calls, "render") = 0
        /\ ~MountPresent

\* C8 witness: the bootstrap has failed on an empty page, the client built.
C8_Witness == pc = "failed" /\ Len(document) = 0 /\ Len(clients) = 1

====
